---- MODULE Spec2Model ----
(***************************************************************************)
(* AdeyPay React SDK: the PayButton approval-reconciliation logic          *)
(* (src/unnamed/part_000, "src/react/PayButton.tsx") and the               *)
(* WithdrawButton payout flow (src/src/react/WithdrawButton.tsx).          *)
(*                                                                         *)
(* One component instance is mounted per behaviour (comp).  A step is one  *)
(* task of the single UI thread: a click handler, the settling of the      *)
(* awaited create call together with the render and the effects it causes, *)
(* a window "message" event, a status change published by usePayment(),    *)
(* a re-render by the parent, the user closing the popup, or the host      *)
(* unmounting the component.                                               *)
(* The callbacks onCreated/onApproved/onError are supplied by the host and *)
(* are taken to be present and to return normally; every invocation is     *)
(* appended to a log: clickErrors for the onError calls of handleClick,    *)
(* calls for everything else.                                              *)
(***************************************************************************)
EXTENDS Integers, Sequences, FiniteSets, TLC

VARIABLES
    comp,            \* which component this instance is: "pay" | "withdraw"
    paymentId,       \* usePayment().paymentId
    status,          \* usePayment().status
    loading,         \* useState(false) of the mounted component
    inflight,        \* PayButton: startPayment() awaited and not settled
    popupRef,        \* popupRef.current: "null" | "open" | "closed"
    handledRef,      \* handledRef.current: Set<string>
    openPayUrlBase,  \* prop openPayUrlBase of the current render
    calls,           \* log: window.open attempts and the callbacks made by the
                     \* effects, the listener and the payout handler
    clickErrors,     \* log: onError calls made by handleClick itself
    wInflight,       \* WithdrawButton: arguments of the awaited create call
    returnedIds,     \* history: ids usePayment() has published to the component
    mounted,         \* the component is mounted (not yet torn down)
    listeners,       \* the "message" listeners this component has subscribed
                     \* on window, in subscription order
    prevKey          \* history: idempotency key of the last settled create call

vars == <<comp, paymentId, status, loading, inflight, popupRef, handledRef,
          openPayUrlBase, calls, clickErrors, wInflight, returnedIds, mounted,
          listeners, prevKey>>

(***************************************************************************)
(* Bounds                                                                  *)
(***************************************************************************)
MaxCalls == 4       \* PayButton: no click or outside event once the logs
                    \* hold this many entries; a pending create call still settles
MaxWCalls == 2      \* WithdrawButton: likewise

(***************************************************************************)
(* Values                                                                  *)
(***************************************************************************)
Null == "null"                  \* JS null (paymentId / status not set)
Undefined == "undefined"        \* JS undefined (absent field)
PaymentIds == {"p1", "p2"}
MsgPaymentIds == PaymentIds \cup {Undefined}
MsgStatuses == {"approved", "failed", "pending", Undefined}
MsgTypes == {"ADEYPAY_PAYMENT", "OTHER"}
Origins == {"https://pay.adey.lol", "https://evil.example"}
Bases == {"https://pay.adey.lol/checkout", "pay.adey.lol"}
HookStatuses == {"pending", "approved", "failed"}
WinResults == {"window", "null"}
Messages == [origin : Origins, type : MsgTypes, paymentId : MsgPaymentIds,
             status : MsgStatuses]

\* JS values of mixed type are tagged: t is the typeof / special-value tag.
Num(n) == [t |-> "num", v |-> n]
NaN == [t |-> "nan", v |-> 0]
Infinity == [t |-> "inf", v |-> 0]
StrAmount == [t |-> "string", v |-> 0]     \* e.g. the string "10"
UndefAmount == [t |-> "undefined", v |-> 0]
Amounts == {Num(n) : n \in {0, 3, 5, 9}}
             \cup {NaN, Infinity, StrAmount, UndefAmount}
PayAmounts == {Num(5), Num(0), Num(-1), NaN, Infinity, StrAmount}

Str(s) == [t |-> "string", v |-> s]
UndefStr == [t |-> "undefined", v |-> ""]
NonStr == [t |-> "number", v |-> "42"]
Emails == {Str("a@b.com"), Str(""), UndefStr, NonStr}
ApiKeys == {"key", ""}

\* one entry of a log: callback name, subject id, error name, amount, and
\* (history only) the channel whose report made PayButton call onApproved
Call(cb, id, err, amt) ==
    [cb |-> cb, id |-> id, err |-> err, amt |-> amt, via |-> ""]
OnCreated(id) == Call("onCreated", id, "", UndefAmount)
OnApproved(id, ch) == [Call("onApproved", id, "", UndefAmount) EXCEPT !.via = ch]
OnError(err, id) == Call("onError", id, err, UndefAmount)
\* window.open(`${openPayUrlBase}/${encodeURIComponent(paymentId)}`, ...):
\* the entry keeps the base and the id the URL was built from
WindowOpen(base, id) == Call("window.open", id, base, UndefAmount)

(***************************************************************************)
(* PayButton                                                               *)
(***************************************************************************)
\* JS truthiness of a string-or-null value
Truthy(x) == x \notin {Null, Undefined, ""}

\* new URL(openPayUrlBase).origin, null when the constructor throws
allowedOrigin(base) ==
    CASE base = "https://pay.adey.lol/checkout" -> "https://pay.adey.lol"
      [] OTHER -> Null

\* `status-${id}`
StatusKey(id) == "status-" \o id

\* the part of the component the effects and the listener read and write
Refs == [handled |-> handledRef, popup |-> popupRef, calls |-> calls]

\* popupRef.current && !popupRef.current.closed  =>  popupRef.current.close()
ClosePopup(p) == IF p = "open" THEN "closed" ELSE p

\* the creation effect without the handledRef guard
CreationEffect_NoGuard(s, pid, base, win) ==
    IF ~Truthy(pid) THEN s
    ELSE [handled |-> s.handled \cup {pid},
          popup |-> IF win = "window" THEN "open" ELSE "null",
          calls |-> s.calls \o <<WindowOpen(base, pid)>>
                      \o (IF win = "window" THEN <<>>
                          ELSE <<OnError("Popup blocked", pid)>>)
                      \o <<OnCreated(pid)>>]

\* the creation effect treating a blocked popup as a terminal failure
CreationEffect_BlockedIsTerminal(s, pid, base, win) ==
    IF ~Truthy(pid) THEN s
    ELSE IF pid \in s.handled THEN s
    ELSE [handled |-> s.handled \cup {pid}
                        \cup (IF win = "window" THEN {} ELSE {StatusKey(pid)}),
          popup |-> IF win = "window" THEN "open" ELSE "null",
          calls |-> s.calls \o <<WindowOpen(base, pid)>>
                      \o (IF win = "window" THEN <<>>
                          ELSE <<OnError("Popup blocked", pid)>>)
                      \o <<OnCreated(pid)>>]

\* useEffect #1: open the popup and notify onCreated, once per payment id.
\* win is what window.open returns: a handle, or null when the popup is blocked.
CreationEffect(s, pid, base, win) ==
    IF ~Truthy(pid) THEN s
    ELSE IF pid \in s.handled THEN s
    ELSE [handled |-> s.handled \cup {pid},
          popup |-> IF win = "window" THEN "open" ELSE "null",
          calls |-> s.calls \o <<WindowOpen(base, pid)>>
                      \o (IF win = "window" THEN <<>>
                          ELSE <<OnError("Popup blocked", pid)>>)
                      \o <<OnCreated(pid)>>]

\* the subject of a message: incomingPaymentId ?? paymentId
Subject(pid, m) == IF m.paymentId = Undefined THEN pid ELSE m.paymentId

\* handleMessage with the handledRef lookup left out
handleMessage_NoDedup(s, pid, allowed, m) ==
    IF Truthy(allowed) /\ m.origin # allowed THEN s
    ELSE IF m.type # "ADEYPAY_PAYMENT" THEN s
    ELSE IF Truthy(pid) /\ Truthy(m.paymentId) /\ m.paymentId # pid THEN s
    ELSE LET key == StatusKey(Subject(pid, m)) IN
         IF m.status = "approved" THEN
              [handled |-> s.handled \cup {key},
               popup |-> ClosePopup(s.popup),
               calls |-> Append(s.calls, OnApproved(Subject(pid, m), "message"))]
         ELSE IF m.status = "failed" THEN
              [handled |-> s.handled \cup {key},
               popup |-> s.popup,
               calls |-> Append(s.calls,
                                OnError("Payment failed (popup)", Subject(pid, m)))]
         ELSE s

\* handleMessage recording the key before it looks at the status
handleMessage_KeyFirst(s, pid, allowed, m) ==
    IF Truthy(allowed) /\ m.origin # allowed THEN s
    ELSE IF m.type # "ADEYPAY_PAYMENT" THEN s
    ELSE IF Truthy(pid) /\ Truthy(m.paymentId) /\ m.paymentId # pid THEN s
    ELSE LET key == StatusKey(Subject(pid, m)) IN
         IF key \in s.handled THEN s
         ELSE IF m.status = "approved" THEN
              [handled |-> s.handled \cup {key},
               popup |-> ClosePopup(s.popup),
               calls |-> Append(s.calls, OnApproved(Subject(pid, m), "message"))]
         ELSE IF m.status = "failed" THEN
              [handled |-> s.handled \cup {key},
               popup |-> s.popup,
               calls |-> Append(s.calls,
                                OnError("Payment failed (popup)", Subject(pid, m)))]
         ELSE [s EXCEPT !.handled = s.handled \cup {key}]

\* handleMessage without the origin test
handleMessage_NoOriginCheck(s, pid, allowed, m) ==
    IF m.type # "ADEYPAY_PAYMENT" THEN s
    ELSE IF Truthy(pid) /\ Truthy(m.paymentId) /\ m.paymentId # pid THEN s
    ELSE LET key == StatusKey(Subject(pid, m)) IN
         IF key \in s.handled THEN s
         ELSE IF m.status = "approved" THEN
              [handled |-> s.handled \cup {key},
               popup |-> ClosePopup(s.popup),
               calls |-> Append(s.calls, OnApproved(Subject(pid, m), "message"))]
         ELSE IF m.status = "failed" THEN
              [handled |-> s.handled \cup {key},
               popup |-> s.popup,
               calls |-> Append(s.calls,
                                OnError("Payment failed (popup)", Subject(pid, m)))]
         ELSE s

\* useEffect #2: the window "message" listener
handleMessage(s, pid, allowed, m) ==
    IF Truthy(allowed) /\ m.origin # allowed THEN s
    ELSE IF m.type # "ADEYPAY_PAYMENT" THEN s
    ELSE IF Truthy(pid) /\ Truthy(m.paymentId) /\ m.paymentId # pid THEN s
    ELSE LET key == StatusKey(Subject(pid, m)) IN
         IF key \in s.handled THEN s
         ELSE IF m.status = "approved" THEN
              [handled |-> s.handled \cup {key},
               popup |-> ClosePopup(s.popup),
               calls |-> Append(s.calls, OnApproved(Subject(pid, m), "message"))]
         ELSE IF m.status = "failed" THEN
              [handled |-> s.handled \cup {key},
               popup |-> s.popup,
               calls |-> Append(s.calls,
                                OnError("Payment failed (popup)", Subject(pid, m)))]
         ELSE s

\* the status effect with the handledRef lookup left out
StatusEffect_NoDedup(s, pid, st) ==
    IF ~Truthy(st) \/ ~Truthy(pid) THEN s
    ELSE LET key == StatusKey(pid) IN
         IF st = "approved" THEN
              [handled |-> s.handled \cup {key},
               popup |-> ClosePopup(s.popup),
               calls |-> Append(s.calls, OnApproved(pid, "status"))]
         ELSE IF st = "failed" THEN
              [handled |-> s.handled \cup {key},
               popup |-> s.popup,
               calls |-> Append(s.calls, OnError("Payment failed", pid))]
         ELSE s

\* useEffect #3: status changes coming from usePayment()
StatusEffect(s, pid, st) ==
    IF ~Truthy(st) \/ ~Truthy(pid) THEN s
    ELSE LET key == StatusKey(pid) IN
         IF key \in s.handled THEN s
         ELSE IF st = "approved" THEN
              [handled |-> s.handled \cup {key},
               popup |-> ClosePopup(s.popup),
               calls |-> Append(s.calls, OnApproved(pid, "status"))]
         ELSE IF st = "failed" THEN
              [handled |-> s.handled \cup {key},
               popup |-> s.popup,
               calls |-> Append(s.calls, OnError("Payment failed", pid))]
         ELSE s

\* a subscribed handleMessage: the paymentId and allowedOrigin of the render
\* whose effect created it
Listener(pid, allowed) == [paymentId |-> pid, allowedOrigin |-> allowed]

\* window.removeEventListener("message", handleMessage), the effect's cleanup
Unsubscribe(ls) == IF ls = <<>> THEN <<>> ELSE SubSeq(ls, 1, Len(ls) - 1)

\* the message effect subscribing without the cleanup of its previous run
MessageEffect_NoCleanup(ls, pid, allowed) == Append(ls, Listener(pid, allowed))

\* useEffect #2 running (again): the cleanup of the previous run, then
\* window.addEventListener("message", handleMessage)
MessageEffect(ls, pid, allowed) == Append(Unsubscribe(ls), Listener(pid, allowed))

\* a "message" event is handed to every subscribed listener in turn
RECURSIVE Dispatch(_, _, _)
Dispatch(s, ls, m) ==
    IF ls = <<>> THEN s
    ELSE Dispatch(handleMessage(s, Head(ls).paymentId, Head(ls).allowedOrigin, m),
                  Tail(ls), m)

\* typeof amount !== "number" || isNaN(amount) || amount <= 0
TypeofNumber(a) == a.t \in {"num", "nan", "inf"}
IsNaN(a) == a.t = "nan"
LeqZero(a) == a.t = "num" /\ a.v <= 0
\* the amount test with  amount < 0  in place of  amount <= 0
InvalidAmount_ZeroAccepted(a) == ~TypeofNumber(a) \/ IsNaN(a) \/ (a.t = "num" /\ a.v < 0)
InvalidAmount(a) == ~TypeofNumber(a) \/ IsNaN(a) \/ LeqZero(a)

Tick == Len(calls) + Len(clickErrors) < MaxCalls
WTick == Len(calls) + Len(clickErrors) < MaxWCalls
SetRefs(s) == /\ handledRef' = s.handled
              /\ popupRef' = s.popup
              /\ calls' = s.calls
WithdrawIdle == UNCHANGED <<wInflight, prevKey>>

\* what a rejected create call throws: an Error, or any other value
ErrorValue(msg) == [isError |-> TRUE, message |-> msg]
NonError(v) == [isError |-> FALSE, message |-> v]
Rejections == {ErrorValue("create failed"), NonError("timeout")}

\* the catch clause handing the thrown value on as it is
AsError_NoWrap(raw) == raw

\* err instanceof Error ? err : new Error(String(err))
AsError(raw) == IF raw.isError THEN raw ELSE ErrorValue(raw.message)

\* how a log entry names the argument of onError: an Error by its message
Reported(x) == IF x.isError THEN x.message ELSE "non-Error: " \o x.message

\* handleClick: guarded by loading; validation errors are thrown inside the
\* try block, caught, reported, and loading is reset in finally.
Click(amount, apiKey) ==
    /\ comp = "pay" /\ Tick
    /\ mounted
    /\ ~loading
    /\ IF InvalidAmount(amount)
       THEN /\ clickErrors' = Append(clickErrors, OnError("Invalid amount", Null))
            /\ UNCHANGED <<inflight, loading>>
       ELSE IF apiKey = ""
       THEN /\ clickErrors' = Append(clickErrors, OnError("API key is required", Null))
            /\ UNCHANGED <<inflight, loading>>
       ELSE /\ inflight' = TRUE
            /\ loading' = TRUE
            /\ UNCHANGED clickErrors
    /\ UNCHANGED <<comp, paymentId, status, popupRef, handledRef, openPayUrlBase,
                   calls, returnedIds, mounted, listeners>>
    /\ WithdrawIdle

\* what usePayment() publishes when the create call succeeds
HookCreated(id) == [paymentId |-> id, status |-> "pending"]

\* startPayment() resolves: the hook publishes the id, the component renders,
\* the effects whose dependencies changed run in declaration order, and the
\* finally block resets loading.  After teardown nothing renders and no
\* effect runs; only the rest of handleClick does.
StartPaymentResolves(id, win) ==
    /\ comp = "pay"
    /\ inflight
    /\ IF mounted
       THEN LET h == HookCreated(id)
                s1 == IF h.paymentId # paymentId
                      THEN CreationEffect(Refs, h.paymentId, openPayUrlBase, win)
                      ELSE Refs
                s2 == IF h.paymentId # paymentId \/ h.status # status
                      THEN StatusEffect(s1, h.paymentId, h.status) ELSE s1
            IN /\ paymentId' = h.paymentId
               /\ status' = h.status
               /\ SetRefs(s2)
               /\ listeners' = IF h.paymentId # paymentId
                                THEN MessageEffect(listeners, h.paymentId,
                                                   allowedOrigin(openPayUrlBase))
                                ELSE listeners
               /\ returnedIds' = returnedIds \cup {id}
       ELSE UNCHANGED <<paymentId, status, handledRef, popupRef, calls, listeners,
                        returnedIds>>
    /\ inflight' = FALSE
    /\ loading' = FALSE
    /\ UNCHANGED <<comp, openPayUrlBase, clickErrors, mounted>>
    /\ WithdrawIdle

\* startPayment() rejects: caught, reported once, loading reset
StartPaymentRejects(raw) ==
    /\ comp = "pay"
    /\ inflight
    /\ clickErrors' = Append(clickErrors, OnError(Reported(AsError(raw)), Null))
    /\ inflight' = FALSE
    /\ loading' = FALSE
    /\ UNCHANGED <<comp, paymentId, status, popupRef, handledRef, openPayUrlBase,
                   calls, returnedIds, mounted, listeners>>
    /\ WithdrawIdle

\* usePayment() publishes a new status for the current payment
StatusUpdate(st) ==
    /\ comp = "pay" /\ Tick
    /\ mounted
    /\ Truthy(paymentId)
    /\ st # status
    /\ status' = st
    /\ SetRefs(StatusEffect(Refs, paymentId, st))
    /\ UNCHANGED <<comp, paymentId, loading, inflight, openPayUrlBase, clickErrors,
                   returnedIds, mounted, listeners>>
    /\ WithdrawIdle

\* what no listener can change: handleMessage writes the refs and calls the
\* host's callbacks, nothing else
MessageFrame ==
    UNCHANGED <<comp, paymentId, status, loading, inflight, openPayUrlBase,
                clickErrors, returnedIds, mounted, listeners>>

\* a "message" event is dispatched on window
Message(m) ==
    /\ comp = "pay" /\ Tick
    /\ MessageFrame
    /\ SetRefs(Dispatch(Refs, listeners, m))
    /\ WithdrawIdle

\* the parent re-renders with new callback identities, popup size or base
\* URL: every effect's dependency list changes, so all three run again.
Rerender(base, win) ==
    /\ comp = "pay" /\ Tick
    /\ mounted
    /\ openPayUrlBase' = base
    /\ LET s1 == CreationEffect(Refs, paymentId, base, win)
           s2 == StatusEffect(s1, paymentId, status)
       IN /\ SetRefs(s2)
    /\ listeners' = MessageEffect(listeners, paymentId, allowedOrigin(base))
    /\ UNCHANGED <<comp, paymentId, status, loading, inflight, clickErrors,
                   returnedIds, mounted>>
    /\ WithdrawIdle

\* the user closes the popup window
UserClosesPopup ==
    /\ comp = "pay" /\ Tick
    /\ popupRef = "open"
    /\ popupRef' = "closed"
    /\ UNCHANGED <<comp, paymentId, status, loading, inflight, handledRef,
                   openPayUrlBase, calls, clickErrors, returnedIds, mounted, listeners>>
    /\ WithdrawIdle

\* the host removes the component: React runs the cleanup of every effect;
\* only the message effect has one.  The popup and a pending create call are
\* left as they are.
Unmount ==
    /\ comp = "pay" /\ Tick
    /\ mounted
    /\ mounted' = FALSE
    /\ listeners' = Unsubscribe(listeners)
    /\ UNCHANGED <<comp, paymentId, status, loading, inflight, popupRef, handledRef,
                   openPayUrlBase, calls, clickErrors, returnedIds>>
    /\ WithdrawIdle

(***************************************************************************)
(* WithdrawButton                                                          *)
(***************************************************************************)
NoCall == [active |-> FALSE, amount |-> UndefAmount, toEmail |-> UndefStr,
           idempotencyKey |-> ""]
PayoutIds == {"w1", "w2"}
ResFields == PayoutIds \cup {Undefined, ""}
Responses == [payoutId : ResFields, id : ResFields]

\* what a click reads: the getPayload prop and its result, the static props,
\* the limits and the disabled flag of the current render
Limits == {<<Num(5), UndefAmount>>, <<Num(5), Num(8)>>, <<Num(6), Num(8)>>}
Request(g, ga, ge, a, e, lim, d) ==
    [getter |-> g, gAmount |-> ga, gEmail |-> ge, amountProp |-> a,
     toEmailProp |-> e, minAmount |-> lim[1], maxAmount |-> lim[2], disabled |-> d]
Requests ==
    {Request("absent", UndefAmount, UndefStr, a, e, lim, FALSE) :
        a \in Amounts, e \in {Str("a@b.com"), Str(""), UndefStr}, lim \in Limits}
    \cup
    {Request("null", UndefAmount, UndefStr, a, e, <<Num(5), Num(8)>>, FALSE) :
        a \in {UndefAmount, Num(5)}, e \in {UndefStr, Str("a@b.com")}}
    \cup
    {Request("payload", a, e, Num(0), UndefStr, <<Num(5), Num(8)>>, FALSE) :
        a \in Amounts, e \in Emails}
    \cup
    {Request("absent", UndefAmount, UndefStr, Num(5), Str("a@b.com"),
             <<Num(5), UndefAmount>>, TRUE)}

\* JS truthiness of a tagged string-or-other value
TruthyVal(x) == ~(x.t = "undefined" \/ (x.t = "string" /\ x.v = ""))

NoPayload == [present |-> FALSE, amount |-> UndefAmount, toEmail |-> UndefStr]

\* payloadFromGetter ?? (amountProp !== undefined || toEmailProp ? {...} : null)
Payload(r) ==
    IF r.getter = "payload"
    THEN [present |-> TRUE, amount |-> r.gAmount, toEmail |-> r.gEmail]
    ELSE IF r.amountProp # UndefAmount \/ TruthyVal(r.toEmailProp)
    THEN [present |-> TRUE, amount |-> r.amountProp, toEmail |-> r.toEmailProp]
    ELSE NoPayload

\* a < b and a > b on JS numbers (b finite)
LessThan(a, b) == a.t = "num" /\ a.v < b.v
GreaterThan(a, b) == a.t = "inf" \/ (a.t = "num" /\ a.v > b.v)

\* the ladder with the minimum test ahead of the amount test
Validate_MinFirst(r) ==
    LET p == Payload(r) IN
    IF ~p.present THEN "Withdrawal payload not provided"
    ELSE IF LessThan(p.amount, r.minAmount) THEN "Minimum withdrawal"
    ELSE IF InvalidAmount(p.amount) THEN "Invalid withdrawal amount"
    ELSE IF TypeofNumber(r.maxAmount) /\ GreaterThan(p.amount, r.maxAmount)
         THEN "Maximum withdrawal"
    ELSE IF ~TruthyVal(p.toEmail) \/ p.toEmail.t # "string"
         THEN "Recipient email required"
    ELSE ""

\* the validation ladder of handleClick: the error reported, "" when valid
Validate(r) ==
    LET p == Payload(r) IN
    IF ~p.present THEN "Withdrawal payload not provided"
    ELSE IF InvalidAmount(p.amount) THEN "Invalid withdrawal amount"
    ELSE IF LessThan(p.amount, r.minAmount) THEN "Minimum withdrawal"
    ELSE IF TypeofNumber(r.maxAmount) /\ GreaterThan(p.amount, r.maxAmount)
         THEN "Maximum withdrawal"
    ELSE IF ~TruthyVal(p.toEmail) \/ p.toEmail.t # "string"
         THEN "Recipient email required"
    ELSE ""

\* what Date.now() and Math.random().toString(36).slice(2, 8) may return:
\* the clock need not have advanced since the last click, and the six
\* characters are drawn anew each time
Times == {1000, 1001}
RandomDigits == {"k3j2x9", "8fq0zd"}
DecimalString(n) == CASE n = 1000 -> "1000" [] n = 1001 -> "1001"

\* `ui-${Date.now()}-${Math.random().toString(36).slice(2, 8)}`
IdempotencyKey(now, digits) == "ui-" \o DecimalString(now) \o "-" \o digits

\* handleClick guarded by disabled only
WClick_NoLoadingGuard(r) ==
    /\ comp = "withdraw" /\ WTick
    /\ IF r.disabled
       THEN UNCHANGED <<loading, clickErrors, wInflight>>
       ELSE IF Validate(r) # ""
       THEN /\ clickErrors' = Append(clickErrors, OnError(Validate(r), Null))
            /\ UNCHANGED <<loading, wInflight>>
       ELSE /\ loading' = TRUE
            /\ \E now \in Times, digits \in RandomDigits :
                  wInflight' = [active |-> TRUE, amount |-> Payload(r).amount,
                                toEmail |-> Payload(r).toEmail,
                                idempotencyKey |-> IdempotencyKey(now, digits)]
            /\ UNCHANGED clickErrors
    /\ UNCHANGED prevKey
    /\ UNCHANGED <<comp, paymentId, status, inflight, popupRef, handledRef,
                   openPayUrlBase, calls, returnedIds, mounted, listeners>>

\* handleClick up to the awaited create call
WClick(r) ==
    /\ comp = "withdraw" /\ WTick
    /\ IF loading \/ r.disabled
       THEN UNCHANGED <<loading, clickErrors, wInflight>>
       ELSE IF Validate(r) # ""
       THEN /\ clickErrors' = Append(clickErrors, OnError(Validate(r), Null))
            /\ UNCHANGED <<loading, wInflight>>
       ELSE /\ loading' = TRUE
            /\ \E now \in Times, digits \in RandomDigits :
                  wInflight' = [active |-> TRUE, amount |-> Payload(r).amount,
                                toEmail |-> Payload(r).toEmail,
                                idempotencyKey |-> IdempotencyKey(now, digits)]
            /\ UNCHANGED clickErrors
    /\ UNCHANGED prevKey
    /\ UNCHANGED <<comp, paymentId, status, inflight, popupRef, handledRef,
                   openPayUrlBase, calls, returnedIds, mounted, listeners>>

\* the extraction preferring the field id
ExtractPayoutId_IdFirst(res) ==
    IF Truthy(res.id) THEN res.id
    ELSE IF Truthy(res.payoutId) THEN res.payoutId
    ELSE ""

\* (res && res.payoutId) || (res && res.id) || ""
ExtractPayoutId(res) ==
    IF Truthy(res.payoutId) THEN res.payoutId
    ELSE IF Truthy(res.id) THEN res.id
    ELSE ""

\* the two notifications in the opposite order
OnResolved_ApprovedFirst(res, amount) ==
    IF ~Truthy(ExtractPayoutId(res))
    THEN [errors |-> <<OnError("No payout id returned", Null)>>, calls |-> <<>>]
    ELSE [errors |-> <<>>,
          calls |-> <<Call("onApproved", ExtractPayoutId(res), "", amount),
                      Call("onCreated", ExtractPayoutId(res), "", amount)>>]

\* the callbacks made once the create call has resolved with res
OnResolved(res, amount) ==
    IF ~Truthy(ExtractPayoutId(res))
    THEN [errors |-> <<OnError("No payout id returned", Null)>>, calls |-> <<>>]
    ELSE [errors |-> <<>>,
          calls |-> <<Call("onCreated", ExtractPayoutId(res), "", amount),
                      Call("onApproved", ExtractPayoutId(res), "", amount)>>]

\* the create call resolves: the rest of the try block, then finally
WResolves(res) ==
    /\ comp = "withdraw"
    /\ wInflight.active
    /\ calls' = calls \o OnResolved(res, wInflight.amount).calls
    /\ clickErrors' = clickErrors \o OnResolved(res, wInflight.amount).errors
    /\ loading' = FALSE
    /\ wInflight' = NoCall
    /\ prevKey' = wInflight.idempotencyKey
    /\ UNCHANGED <<comp, paymentId, status, inflight, popupRef, handledRef,
                   openPayUrlBase, returnedIds, mounted, listeners>>

\* the rejection path without the finally block
WRejects_NoFinally(raw) ==
    /\ comp = "withdraw"
    /\ wInflight.active
    /\ clickErrors' = Append(clickErrors, OnError(Reported(AsError(raw)), Null))
    /\ wInflight' = NoCall
    /\ prevKey' = wInflight.idempotencyKey
    /\ UNCHANGED <<comp, paymentId, status, loading, inflight, popupRef, handledRef,
                   openPayUrlBase, calls, returnedIds, mounted, listeners>>

\* the create call rejects: catch, then finally
WRejects(raw) ==
    /\ comp = "withdraw"
    /\ wInflight.active
    /\ clickErrors' = Append(clickErrors, OnError(Reported(AsError(raw)), Null))
    /\ loading' = FALSE
    /\ wInflight' = NoCall
    /\ prevKey' = wInflight.idempotencyKey
    /\ UNCHANGED <<comp, paymentId, status, inflight, popupRef, handledRef,
                   openPayUrlBase, calls, returnedIds, mounted, listeners>>

(***************************************************************************)
(* Specification                                                           *)
(***************************************************************************)
Init ==
    /\ comp \in {"pay", "withdraw"}
    /\ paymentId = Null
    /\ status = Null
    /\ loading = FALSE
    /\ inflight = FALSE
    /\ popupRef = "null"
    /\ handledRef = {}
    /\ openPayUrlBase \in Bases
    /\ calls = <<>>
    /\ clickErrors = <<>>
    /\ wInflight = NoCall
    /\ returnedIds = {}
    /\ mounted = TRUE
    /\ prevKey = ""
    /\ listeners = IF comp = "pay"
                   THEN MessageEffect(<<>>, Null, allowedOrigin(openPayUrlBase))
                   ELSE <<>>

Next ==
    \/ \E a \in PayAmounts, k \in ApiKeys : Click(a, k)
    \/ \E id \in PaymentIds, w \in WinResults : StartPaymentResolves(id, w)
    \/ \E raw \in Rejections : StartPaymentRejects(raw)
    \/ \E st \in HookStatuses : StatusUpdate(st)
    \/ \E m \in Messages : Message(m)
    \/ \E b \in Bases, w \in WinResults : Rerender(b, w)
    \/ UserClosesPopup
    \/ Unmount
    \/ \E r \in Requests : WClick(r)
    \/ \E res \in Responses : WResolves(res)
    \/ \E raw \in Rejections : WRejects(raw)

Spec == Init /\ [][Next]_vars

\* the awaited create call settles: the promise handleClick is suspended on
\* is resolved or rejected by the hook, the API helper or the host's function
CreateCallSettles ==
    \/ \E id \in PaymentIds, w \in WinResults : StartPaymentResolves(id, w)
    \/ \E raw \in Rejections : StartPaymentRejects(raw)
    \/ \E res \in Responses : WResolves(res)
    \/ \E raw \in Rejections : WRejects(raw)

\* the same system when every pending create call does settle
FairSpec == Spec /\ WF_vars(CreateCallSettles)

(***************************************************************************)
(* Reading the log                                                         *)
(***************************************************************************)
IsTerminalError(c) ==
    c.cb = "onError" /\ c.err \in {"Payment failed", "Payment failed (popup)"}
NApproved(id) ==
    Cardinality({i \in DOMAIN calls : calls[i].cb = "onApproved" /\ calls[i].id = id})
NFailed(id) ==
    Cardinality({i \in DOMAIN calls : IsTerminalError(calls[i]) /\ calls[i].id = id})
NTerminal(id) == NApproved(id) + NFailed(id)
NCreated(id) ==
    Cardinality({i \in DOMAIN calls : calls[i].cb = "onCreated" /\ calls[i].id = id})
NOpen(id) ==
    Cardinality({i \in DOMAIN calls : calls[i].cb = "window.open" /\ calls[i].id = id})
NBlocked(id) ==
    Cardinality({i \in DOMAIN calls : /\ calls[i].cb = "onError"
                                      /\ calls[i].err = "Popup blocked"
                                      /\ calls[i].id = id})

Channels == {"message", "status"}

\* this step makes a callback, records a key or changes the popup
Acts == calls' # calls \/ handledRef' # handledRef \/ popupRef' # popupRef

\* the origin a message must come from, if one is derivable from the base URL
OriginOk(m) ==
    \/ openPayUrlBase = "pay.adey.lol"
    \/ m.origin = "https://pay.adey.lol"

\* m is an "approved" report for id reaching the component's session
ApprovedMessageFor(id, m) ==
    /\ OriginOk(m)
    /\ m.type = "ADEYPAY_PAYMENT"
    /\ m.status = "approved"
    /\ \/ m.paymentId = id /\ paymentId \in {id, Null}
       \/ m.paymentId = Undefined /\ paymentId = id

\* this step delivers an "approved" report for id on either channel
ApprovedArrives(id) ==
    \/ \E m \in Messages : ApprovedMessageFor(id, m) /\ Message(m)
    \/ paymentId = id /\ StatusUpdate("approved")

(***************************************************************************)
(* PayButton: delivery of terminal status                                  *)
(***************************************************************************)
\* C1: whatever the number and order of "approved" reports for a payment id
\* on the message channel and the status channel, onApproved(id) is invoked
\* at most once: the first report to arrive invokes it, and every later one,
\* from either channel, invokes nothing.
C1_ApprovedExactlyOnce ==
    /\ [](\A id \in PaymentIds : NApproved(id) <= 1)
    /\ [][\A id \in PaymentIds :
            (comp = "pay" /\ ApprovedArrives(id)) =>
                IF NTerminal(id) = 0
                THEN \E ch \in Channels : calls' = Append(calls, OnApproved(id, ch))
                ELSE calls' = calls]_vars

\* a message made the one onApproved("p1") call, and the status channel has
\* reported "approved" for p1 as well
C1_Witness ==
    /\ paymentId = "p1" /\ status = "approved"
    /\ Len(calls) > 0
    /\ calls[Len(calls)] = OnApproved("p1", "message")
    /\ NApproved("p1") = 1

\* C2: for every payment id, onApproved(id) and the terminal "Payment failed"
\* onError exclude each other and each fires at most once; once one of them
\* has fired, no later step adds a terminal callback for that id.
C2_TerminalOnce ==
    /\ [](\A id \in PaymentIds : NTerminal(id) <= 1)
    /\ [][\A id \in PaymentIds :
            NTerminal(id) >= 1 =>
                /\ NApproved(id)' = NApproved(id)
                /\ NFailed(id)' = NFailed(id)]_vars

\* the popup reported p1 failed; the status channel then reported "approved"
\* for p1, which made no callback
C2_Witness ==
    /\ paymentId = "p1" /\ status = "approved"
    /\ Len(calls) > 0
    /\ calls[Len(calls)] = OnError("Payment failed (popup)", "p1")
    /\ NFailed("p1") = 1
    /\ NApproved("p1") = 0

\* C3: a message from another origin than the derived one, or carrying a
\* paymentId other than the session's current id (also while no id is
\* assigned yet), leaves the dedup set, the log and the popup unchanged.
OriginDiffers(m) == ~OriginOk(m)
IdDiffers(m) == m.paymentId # Undefined /\ m.paymentId # paymentId
C3_ForeignMessageIgnored ==
    [][\A m \in Messages :
         ((OriginDiffers(m) \/ IdDiffers(m)) /\ Message(m))
            => UNCHANGED <<handledRef, calls, clickErrors, popupRef>>]_vars

\* C4: for each payment id returned by creation there is exactly one
\* window.open attempt and exactly one onCreated(id), however often the
\* creation effect runs again.
C4_CreatedOnce ==
    \A id \in PaymentIds :
        /\ NOpen(id) <= 1
        /\ NCreated(id) <= 1
        /\ id \in returnedIds => (NOpen(id) = 1 /\ NCreated(id) = 1)

\* the popup of the current payment was opened under another base URL than
\* the current one: the effect has run again since, and nothing was repeated
C4_Witness ==
    /\ paymentId \in returnedIds
    /\ \E i \in DOMAIN calls : /\ calls[i].cb = "window.open"
                               /\ calls[i].id = paymentId
                               /\ calls[i].err # openPayUrlBase
    /\ NOpen(paymentId) = 1
    /\ NCreated(paymentId) = 1

\* C5: when window.open returns no handle, onError reports the blocked popup,
\* onCreated(id) is still delivered, no status key is recorded for the id,
\* and a later "approved" from the status channel invokes onApproved(id),
\* once.
C5_PopupBlockedNotTerminal ==
    /\ [](\A id \in PaymentIds :
            NBlocked(id) >= 1 =>
                /\ NBlocked(id) = 1
                /\ NCreated(id) = 1
                /\ NApproved(id) <= 1
                /\ StatusKey(id) \in handledRef => NTerminal(id) = 1)
    /\ [][\A id \in PaymentIds :
            /\ NBlocked(id)' > NBlocked(id) =>
                  /\ NCreated(id)' = NCreated(id) + 1
                  /\ StatusKey(id) \in handledRef' <=> StatusKey(id) \in handledRef
            /\ (/\ NBlocked(id) >= 1
                /\ paymentId = id
                /\ NTerminal(id) = 0
                /\ StatusUpdate("approved"))
                  => calls' = Append(calls, OnApproved(id, "status"))]_vars

\* p1's popup was blocked, the status channel then reported "approved"
C5_Witness ==
    /\ NBlocked("p1") = 1
    /\ NCreated("p1") = 1
    /\ paymentId = "p1" /\ status = "approved"
    /\ Len(calls) > 0
    /\ calls[Len(calls)] = OnApproved("p1", "status")
    /\ NApproved("p1") = 1

\* C6: a step in which the current session turns terminal (approved or
\* failed, by either channel) while its popup is open closes the popup.
C6_TerminalClosesPopup ==
    [][\A id \in PaymentIds :
         (/\ paymentId = id
          /\ popupRef = "open"
          /\ NTerminal(id)' > NTerminal(id))
            => popupRef' = "closed"]_vars

\* C7: at most one session is live: a create call in flight, or an id
\* assigned by creation that has no terminal status yet.
LiveCreated == {id \in returnedIds : NTerminal(id) = 0}
C7_OneLiveSession ==
    Cardinality(LiveCreated) + (IF inflight THEN 1 ELSE 0) <= 1

(***************************************************************************)
(* Validation and the payout flow                                          *)
(***************************************************************************)
\* the amount and recipient a request carries
AmountOf(r) == IF r.getter = "payload" THEN r.gAmount ELSE r.amountProp
RecipientOf(r) == IF r.getter = "payload" THEN r.gEmail ELSE r.toEmailProp

\* the five rules, each saying when a request breaks it
BreaksPayload(r) ==
    /\ r.getter # "payload"
    /\ r.amountProp.t = "undefined"
    /\ r.toEmailProp \in {UndefStr, Str("")}
BreaksAmount(r) ==
    \/ AmountOf(r).t \in {"nan", "string", "undefined"}
    \/ AmountOf(r).t = "num" /\ AmountOf(r).v <= 0
BreaksMin(r) == AmountOf(r).t = "num" /\ AmountOf(r).v < r.minAmount.v
BreaksMax(r) ==
    /\ r.maxAmount.t = "num"
    /\ \/ AmountOf(r).t = "inf"
       \/ AmountOf(r).t = "num" /\ AmountOf(r).v > r.maxAmount.v
BreaksRecipient(r) == ~(RecipientOf(r).t = "string" /\ RecipientOf(r).v # "")

BreaksAny(r) ==
    \/ BreaksPayload(r) \/ BreaksAmount(r) \/ BreaksMin(r)
    \/ BreaksMax(r) \/ BreaksRecipient(r)

\* the error of the first rule broken, in the fixed order
FirstBroken(r) ==
    CASE BreaksPayload(r) -> "Withdrawal payload not provided"
      [] ~BreaksPayload(r) /\ BreaksAmount(r) -> "Invalid withdrawal amount"
      [] ~BreaksPayload(r) /\ ~BreaksAmount(r) /\ BreaksMin(r) -> "Minimum withdrawal"
      [] ~BreaksPayload(r) /\ ~BreaksAmount(r) /\ ~BreaksMin(r) /\ BreaksMax(r)
           -> "Maximum withdrawal"
      [] OTHER -> "Recipient email required"

\* C8: WithdrawButton reports, for a request breaking any rule, exactly the
\* error of the first rule broken in the order payload, amount, minimum,
\* maximum, recipient; no create call is made, loading stays unset and no
\* other callback fires.
C8_FirstFailureWins ==
    [][comp = "withdraw" =>
         \A r \in Requests :
            (~loading /\ ~r.disabled /\ BreaksAny(r) /\ WClick(r)) =>
                /\ clickErrors' = Append(clickErrors, OnError(FirstBroken(r), Null))
                /\ calls' = calls
                /\ ~wInflight'.active
                /\ ~loading']_vars

\* a below-minimum request was rejected and nothing else happened
C8_Witness ==
    /\ comp = "withdraw"
    /\ clickErrors = <<OnError("Minimum withdrawal", Null)>>
    /\ calls = <<>>
    /\ ~loading
    /\ ~wInflight.active

\* C9: in both buttons an accepted click whose amount is <= 0 or not a number
\* reports the invalid-amount error and makes no creation call.
NotPositiveNumber(a) ==
    \/ a.t \in {"nan", "string", "undefined"}
    \/ a.t = "num" /\ a.v <= 0
C9_InvalidAmountRejected ==
    [][/\ comp = "pay" =>
            \A a \in PayAmounts, k \in ApiKeys :
                (NotPositiveNumber(a) /\ Click(a, k)) =>
                    /\ clickErrors' = Append(clickErrors, OnError("Invalid amount", Null))
                    /\ calls' = calls
                    /\ ~inflight'
       /\ comp = "withdraw" =>
            \A r \in Requests :
                (/\ ~loading /\ ~r.disabled
                 /\ ~BreaksPayload(r)
                 /\ NotPositiveNumber(AmountOf(r))
                 /\ WClick(r)) =>
                    /\ clickErrors' = Append(clickErrors,
                                             OnError("Invalid withdrawal amount", Null))
                    /\ calls' = calls
                    /\ ~wInflight'.active]_vars

\* PayButton rejected a click for its amount; no create call is in flight
C9_Witness ==
    /\ comp = "pay"
    /\ clickErrors = <<OnError("Invalid amount", Null)>>
    /\ calls = <<>>
    /\ ~inflight
    /\ ~loading

\* C10: when the create call of a valid request resolves with an identifier,
\* the handler invokes onCreated(id, amount) and then onApproved(id, amount),
\* once each, and nothing else.
HasIdentifier(res) ==
    res.payoutId \notin {Undefined, ""} \/ res.id \notin {Undefined, ""}
IdentifierOf(res) ==
    IF res.payoutId \notin {Undefined, ""} THEN res.payoutId ELSE res.id
C10_CreatedThenApproved ==
    [][(comp = "withdraw" /\ wInflight.active) =>
         \A res \in Responses :
            (HasIdentifier(res) /\ WResolves(res)) =>
                /\ Len(calls') = Len(calls) + 2
                /\ SubSeq(calls', 1, Len(calls)) = calls
                /\ calls'[Len(calls) + 1] =
                     Call("onCreated", IdentifierOf(res), "", wInflight.amount)
                /\ calls'[Len(calls) + 2] =
                     Call("onApproved", IdentifierOf(res), "", wInflight.amount)
                /\ clickErrors' = clickErrors
                /\ ~loading']_vars

\* the payout of 5 to a@b.com resolved with w1: two callbacks, in order
C10_Witness ==
    /\ comp = "withdraw"
    /\ calls = <<Call("onCreated", "w1", "", Num(5)),
                 Call("onApproved", "w1", "", Num(5))>>
    /\ clickErrors = <<>>
    /\ ~loading
    /\ ~wInflight.active

\* C11: the payout identifier reported is the response's payoutId when that
\* is non-empty, else its id; when the create call resolves with neither,
\* onError is invoked once with the no-identifier error and neither onCreated
\* nor onApproved is invoked.
C11_IdentifierOrError ==
    [][(comp = "withdraw" /\ wInflight.active) =>
         \A res \in Responses :
            WResolves(res) =>
                IF res.payoutId \in PayoutIds
                THEN /\ calls'[Len(calls')].id = res.payoutId
                     /\ clickErrors' = clickErrors
                ELSE IF res.id \in PayoutIds
                THEN /\ calls'[Len(calls')].id = res.id
                     /\ clickErrors' = clickErrors
                ELSE /\ clickErrors' =
                          Append(clickErrors, OnError("No payout id returned", Null))
                     /\ calls' = calls]_vars

\* a create call resolved without an identifier: one error, no notification
C11_Witness ==
    /\ comp = "withdraw"
    /\ clickErrors = <<OnError("No payout id returned", Null)>>
    /\ calls = <<>>
    /\ ~loading
    /\ ~wInflight.active

\* C12: in both buttons loading is true only while the handler is suspended
\* on the create call, and once loading is set it is reset to false when the
\* create call settles, whichever way the handler exits (resolved, rejected,
\* no identifier, validation error inside the try block, popup blocked).
C12_LoadingReleased ==
    /\ [](loading => (inflight \/ wInflight.active))
    /\ (loading ~> ~loading)

\* PayButton's create call resolved with p1, the popup was blocked, and
\* loading is false again
C12_Witness ==
    /\ comp = "pay"
    /\ paymentId = "p1"
    /\ NBlocked("p1") = 1
    /\ ~inflight
    /\ ~loading

\* C13: at most one message listener of the component is subscribed at any
\* time; after teardown none is, and no step that makes a callback, changes
\* the dedup set or closes the popup is the delivery of a message.
C13_UnsubscribedOnTeardown ==
    /\ [](Len(listeners) <= 1)
    /\ [](~mounted => listeners = <<>>)
    /\ [][(comp = "pay" /\ ~mounted /\ MessageFrame /\ Acts) =>
            \A m \in Messages : ~Message(m)]_vars

\* torn down while p1 was created, its popup open and no terminal status yet
C13_Witness ==
    /\ ~mounted
    /\ listeners = <<>>
    /\ paymentId = "p1"
    /\ popupRef = "open"
    /\ NTerminal("p1") = 0

\* C14: in both buttons a rejected create call is reported through onError
\* once, as an Error carrying the thrown value; the step makes no onCreated
\* or onApproved call and opens no popup, leaves no create call pending, and
\* resets loading, so that a later click starts a fresh attempt.
C14_RejectionReportedOnce ==
    [][(inflight \/ wInflight.active) =>
         \A raw \in Rejections :
            (StartPaymentRejects(raw) \/ WRejects(raw)) =>
                /\ clickErrors' = Append(clickErrors, OnError(raw.message, Null))
                /\ calls' = calls
                /\ popupRef' = popupRef
                /\ ~inflight'
                /\ ~wInflight'.active
                /\ ~loading']_vars

\* PayButton's first create call rejected with a value that is no Error; it
\* was reported as one, and a second click has started a fresh attempt
C14_Witness ==
    /\ comp = "pay"
    /\ clickErrors = <<OnError("timeout", Null)>>
    /\ calls = <<>>
    /\ popupRef = "null"
    /\ inflight
    /\ loading

\* C15: the idempotency key of a create call differs from the key of the
\* create call made before it by the same component instance.
C15_KeyDiffersFromPrevious ==
    [][(comp = "withdraw" /\ ~wInflight.active /\ wInflight'.active)
          => wInflight'.idempotencyKey # prevKey]_vars

\* C16: PayButton invokes onApproved(id) only for an id it has created:
\* every onApproved(id) in the log comes after onCreated(id), and none is made
\* without an id.
C16_ApprovedOnlyAfterCreated ==
    comp = "pay" =>
        \A i \in DOMAIN calls :
            calls[i].cb = "onApproved" =>
                /\ calls[i].id \in PaymentIds
                /\ \E j \in 1..(i - 1) : calls[j] = OnCreated(calls[i].id)

\* C17: PayButton's loading is true in every state where the session is
\* Created (an id published, its popup effect run) and no terminal status
\* has been delivered for it.
C17_LoadingHeldWhileCreated ==
    (/\ comp = "pay"
     /\ mounted
     /\ paymentId \in returnedIds
     /\ NTerminal(paymentId) = 0) => loading

\* C18: a WithdrawButton click whose amount is positive infinity reports the
\* invalid-amount error and makes no create call, whatever maxAmount is.
C18_InfinityRejected ==
    [][comp = "withdraw" =>
         \A r \in Requests :
            (/\ ~loading /\ ~r.disabled
             /\ ~BreaksPayload(r)
             /\ AmountOf(r) = Infinity
             /\ WClick(r)) =>
                /\ clickErrors' = Append(clickErrors,
                                         OnError("Invalid withdrawal amount", Null))
                /\ ~wInflight'.active]_vars

(***************************************************************************)
(* PayButton: what the listener drops                                      *)
(***************************************************************************)
\* C19: the delivery of a message that passes the origin check but is of
\* another type, or whose status is neither "approved" nor "failed" (or is
\* absent), is never a step that makes a callback, closes the popup or
\* records a dedup key; a key of a
\* payment id is only ever recorded together with its one terminal callback,
\* so a later "approved" or "failed" report for the id is still delivered.
Unrecognized(m) ==
    m.type # "ADEYPAY_PAYMENT" \/ m.status \notin {"approved", "failed"}
C19_UnrecognizedDropped ==
    /\ [](\A id \in PaymentIds : StatusKey(id) \in handledRef => NTerminal(id) = 1)
    /\ [][(comp = "pay" /\ mounted /\ MessageFrame /\ Acts) =>
            \A m \in Messages :
                (OriginOk(m) /\ Unrecognized(m)) => ~Message(m)]_vars

\* p1 is created, its popup open, and no key for it is recorded: the state a
\* dropped message for p1 leaves as it found it
C19_Witness ==
    /\ mounted
    /\ listeners = <<Listener("p1", "https://pay.adey.lol")>>
    /\ paymentId = "p1" /\ status = "pending"
    /\ popupRef = "open"
    /\ handledRef = {"p1"}
    /\ calls = <<WindowOpen("https://pay.adey.lol/checkout", "p1"), OnCreated("p1")>>

\* C20: a message that makes a callback, records a key or closes the popup
\* came from the origin derived from openPayUrlBase whenever one is
\* derivable; when none is derivable, an "approved" message for the current
\* payment is accepted from any origin.
C20_OriginFilter ==
    [][(comp = "pay" /\ MessageFrame) =>
         \A m \in Messages :
            /\ (Acts /\ ~OriginOk(m)) => ~Message(m)
            /\ (/\ mounted
                /\ openPayUrlBase = "pay.adey.lol"
                /\ paymentId \in PaymentIds
                /\ StatusKey(paymentId) \notin handledRef
                /\ m.type = "ADEYPAY_PAYMENT"
                /\ m.paymentId = paymentId
                /\ m.status = "approved"
                /\ Message(m))
                  => calls' = Append(calls, OnApproved(paymentId, "message"))]_vars

\* no origin is derivable from the current base URL, the subscribed listener
\* filters nothing, and a message made the onApproved("p1") call
C20_Witness ==
    /\ mounted
    /\ openPayUrlBase = "pay.adey.lol"
    /\ listeners = <<Listener("p1", Null)>>
    /\ Len(calls) > 0
    /\ calls[Len(calls)] = OnApproved("p1", "message")
    /\ calls[1] = WindowOpen("pay.adey.lol", "p1")

(***************************************************************************)
(* WithdrawButton: one create call at a time                               *)
(***************************************************************************)
\* this step is one outcome: one onError, or onCreated(id, a) followed by
\* onApproved(id, a)
OneError == Len(clickErrors') = Len(clickErrors) + 1 /\ calls' = calls
CreatedThenApproved ==
    /\ clickErrors' = clickErrors
    /\ Len(calls') = Len(calls) + 2
    /\ SubSeq(calls', 1, Len(calls)) = calls
    /\ calls'[Len(calls) + 1].cb = "onCreated"
    /\ calls'[Len(calls) + 2] =
         [calls'[Len(calls) + 1] EXCEPT !.cb = "onApproved"]

\* C21: no step that changes loading, the logs or the pending create call
\* is a WithdrawButton click made while loading or disabled; a
\* create call is pending exactly while loading is set, so never two at once;
\* an accepted click either reports one error at once or starts the one
\* create call, and the settling of that call makes exactly one outcome: one
\* onError, or onCreated followed by onApproved.
C21_OneOutcomePerClick ==
    /\ [](comp = "withdraw" => (loading <=> wInflight.active))
    /\ [][comp = "withdraw" =>
            /\ ~UNCHANGED <<loading, calls, clickErrors, wInflight>> =>
                  \A r \in Requests : (loading \/ r.disabled) => ~WClick(r)
            /\ (~wInflight.active /\ ~UNCHANGED <<calls, clickErrors, wInflight>>) =>
                  \/ OneError /\ ~wInflight'.active
                  \/ UNCHANGED <<calls, clickErrors>> /\ wInflight'.active
            /\ wInflight.active =>
                  /\ ~wInflight'.active
                  /\ OneError \/ CreatedThenApproved]_vars

\* the first accepted click ended in one error (no identifier returned); a
\* second accepted click has its create call pending
C21_Witness ==
    /\ comp = "withdraw"
    /\ clickErrors = <<OnError("No payout id returned", Null)>>
    /\ calls = <<>>
    /\ loading
    /\ wInflight.active
    /\ prevKey # ""

====
